---- MODULE Spec2Model ----
(***************************************************************************)
(* Archive Studio (src/archive_studio_qt.py): the job engine of the Qt     *)
(* front end.  One main (GUI) thread runs the handlers of ProcessTab and   *)
(* ProjectTab; an AIProcessingThread runs one AI job, the HTR job fanning  *)
(* out page tasks on a ThreadPoolExecutor; PDFImportThreads append pages.  *)
(*                                                                         *)
(* Rows are numbered from 1 here (page_index + 1 of the code).             *)
(* A DataFrame is a sequence of rows.  Python names refer to DataFrame     *)
(* objects: `main_df` is the frame main_window.main_df refers to, `data`   *)
(* the frame AIProcessingThread.data refers to, and `shared` says that     *)
(* both names refer to the same object, so that a write through one is     *)
(* seen through the other.                                                 *)
(***************************************************************************)
EXTENDS Integers, Sequences, FiniteSets, Bags, TLC

\* ------------------------------------------------------------ bounds
\* Longest Store the session starts with (pages).
MaxPages == 3
\* AI jobs submitted and accepted in one session.
MaxJobs == 1
\* PDF imports started in one session.
MaxImports == 1
\* Pages of an imported PDF.
MaxPdfPages == 1
\* max_workers of the executor (line 76 sets 50); scaled so that the cap
\* binds on Stores of MaxPages pages.
batch_size == 2
\* PDF imports started in a session that only imports.
MaxImportThreads == 2
\* Pages of a PDF in a session that only imports.
MaxImportPages == 3
\* batch_size of PDFImportThread.run (line 397 sets 5); scaled so that a
\* PDF of MaxImportPages pages has more than one batch.
pdf_batch_size == 2
\* Image files of a project directory.
MaxFolderImages == 2
\* Longest raw text the OCR backend returns (characters).
MaxTextLen == 7

\* ------------------------------------------------------------ constants
\* process_translation: total_items
TranslateItems == 8
\* process_metadata_extraction: total_items
MetadataItems == 15

\* ------------------------------------------------------------ cells
\* A column the frame does not have (Series.get then yields its default).
NoCol == "<no column>"
\* pandas' filler for a cell of a column created by a write to another row
\* or by concat: a float, not a string.
NaN == "<NaN>"
\* The Index of a row that has none: the frame has no Index column, or
\* the cell holds the NaN that concat puts there.
NoIndex == 0 - 1
\* What the provider can hand back: nothing, blank text, or text.
ProviderResults == {"", " ", "ta"}
\* The image path of a row: empty, a file that is not on disk, a file.
ImagePaths == {"", "gone.jpg", "img.jpg"}

\* str.strip, on the texts of the model
Strip(s) == IF s = " " THEN "" ELSE s

\* Series.get(col, ''): the default when the column is absent
Get(row, col) == IF row[col] = NoCol THEN "" ELSE row[col]

\* os.path.exists(get_full_path(image_path))
PathExists(p) == p = "img.jpg"

\* df.loc[i, col] = v on a column the frame has: sets the cell.
SetCell(df, i, col, v) == [df EXCEPT ![i] = [@ EXCEPT ![col] = v]]

\* A row as test_real_htr.py builds it (lines 61-68): the i-th row.
TestRow(i, p) ==
  [Index |-> i, Image_Path |-> p, Original_Text |-> "",
   Corrected_Text |-> "", Text_Toggle |-> "None"]

\* A row of load_files_from_folder_no_text, which has a 'Text' and no
\* 'Original_Text' and no 'Index' column; p is the image file, which may
\* since have gone.
FolderRow(p) ==
  [Index |-> NoIndex, Image_Path |-> p, Original_Text |-> NoCol,
   Corrected_Text |-> "", Text_Toggle |-> "None"]

\* A row an earlier HTR run has filled (lines 172-173 of that run, whose
\* provider returned "tb"); the image may since have gone.
ProcessedRow(i, p) ==
  [Index |-> i, Image_Path |-> p, Original_Text |-> "tb",
   Corrected_Text |-> "", Text_Toggle |-> "Original_Text"]

\* df.loc[i, col] = v when the indexer was computed while the frame had no
\* such column: the column is installed anew, NaN in every row
\* (self.obj[key] = infer_fill_value(value)), and then the cell is set.
CreateColumn(df, i, col, v) ==
  [k \in 1..Len(df) |->
     IF k = i THEN [df[k] EXCEPT ![col] = v] ELSE [df[k] EXCEPT ![col] = NaN]]

\* The frame has the column.
HasColumn(df, col) == \A k \in 1..Len(df) : df[k][col] # NoCol

\* A row of PDFImportThread.run, lines 440-453; txt is
\* page.get_text("text").
PdfRow(new_index, txt) ==
  [Index |-> new_index,
   Image_Path |-> "img.jpg",
   Original_Text |-> IF Strip(txt) # "" THEN txt ELSE "",
   Corrected_Text |-> "",
   Text_Toggle |-> IF Strip(txt) # "" THEN "Original_Text" ELSE "None"]

\* pd.concat([main_df, new_rows_df], ignore_index=True): the columns of
\* both; a row lacking a column of the other frame gets NaN there (its
\* Index stays NoIndex).
Concat(df, new) ==
  IF new = <<>> THEN df
  ELSE [k \in 1..Len(df) |->
          IF df[k].Original_Text = NoCol
          THEN [df[k] EXCEPT !.Original_Text = NaN] ELSE df[k]] \o new

\* ------------------------------------------------------------ state
VARIABLES
  main_df,          \* main_window.main_df
  data,             \* current_thread.data
  shared,           \* current_thread.data is main_window.main_df
  main_pc,          \* where the GUI thread is: "idle", "warning", "waiting"
  processing,       \* set_processing_state: buttons off, cancel visible
  sigq,             \* terminal signals queued to the GUI thread
  jobs_left,        \* AI jobs the session may still start
  operation_type,   \* current_thread.operation_type ("none": no thread)
  thr_pc,           \* where current_thread.run is
  is_cancelled,     \* current_thread.is_cancelled
  loop_i,           \* the loop variable i of the process_* method
  total_pages,      \* total_pages / total_items
  processed_count,  \* processed_count
  tasks,            \* the futures of the HTR job, by row
  harvested,        \* futures the as_completed loop has taken
  late_starts,      \* page tasks that began to execute with the flag set
  last_progress,    \* the last progress_updated(current, total)
  terminal,         \* the terminal event current_thread emitted
  unreported,       \* finished page tasks no progress event has followed
  function_presets, \* the names of main_window.settings.function_presets
  project_directory, \* main_window.project_directory and what it holds
  load_message,     \* the QMessageBox load_files_from_folder_no_text showed
  page_counter,     \* main_window.page_counter
  files,            \* the image files PDF imports have written (a bag)
  backend,          \* the outcome of the backend a call is made to
  returned,         \* what the call has returned to its caller
  imports,          \* PDFImportThreads started so far
  imp               \* the PDFImportThreads, by number

thread_vars ==
  <<operation_type, thr_pc, is_cancelled, loop_i, total_pages,
    processed_count, tasks, harvested, late_starts, unreported,
    last_progress, terminal>>

backend_vars == <<backend, returned>>

vars ==
  <<main_df, data, shared, main_pc, processing, sigq, jobs_left,
    function_presets, project_directory, load_message, page_counter, files,
    backend, returned, imports, imp,
    operation_type, thr_pc, is_cancelled, loop_i, total_pages,
    processed_count, tasks, harvested, late_starts, unreported,
    last_progress, terminal>>

\* Python values a backend call hands over: strings (val is the sequence
\* of their characters), None, tuples (len items, the first of type item
\* and, when a string, of text val) and anything else.
PyStr(s) == [type |-> "str", val |-> s, len |-> 0, item |-> "none"]
PyNone == [type |-> "NoneType", val |-> <<>>, len |-> 0, item |-> "none"]
PyDict == [type |-> "dict", val |-> <<>>, len |-> 0, item |-> "none"]
PyTuple(n, first) ==
  [type |-> "tuple", val |-> first.val, len |-> n, item |-> first.type]

\* No project directory is set (ArchiveStudioQt.init_backend).
NoDirectory == [path |-> "", listable |-> FALSE, images |-> 0]

\* No call is being made, nothing has been returned.
NoCall == [type |-> "no call", val |-> <<>>, len |-> 0, item |-> "none"]

JobTypes == {"htr_all", "correct_text", "translate", "extract_metadata"}

NoEvent == [kind |-> "none", succeeded |-> 0, total |-> 0]
Event(k, s, t) == [kind |-> k, succeeded |-> s, total |-> t]

NoTask == [st |-> "none", ok |-> FALSE, img |-> "", res |-> ""]
NoImport ==
  [pc |-> "none", total |-> 0, batch_start |-> 0, page_num |-> 0,
   start_index |-> 0, new_rows |-> <<>>, is_cancelled |-> FALSE,
   result |-> "none", failed_at |-> "none", appended |-> 0, events |-> 0]

\* The Stores a session starts with: rows as the tests build them, or the
\* rows ProjectTab.import_images has loaded from a folder of n images.
InitStores ==
  UNION {{[k \in 1..n |-> TestRow(k - 1, f[k])] : f \in [1..n -> ImagePaths]}
           \cup [1..n -> {FolderRow(p) : p \in ImagePaths \ {""}}]
         : n \in 0..MaxPages}

\* The names looked up in settings.function_presets.
PresetNames == {"HTR", "Correct_Text"}

\* The state of a new session but for the Store and the configuration.
InitSession ==
  /\ data = <<>>
  /\ shared = FALSE
  /\ main_pc = "idle"
  /\ processing = FALSE
  /\ sigq = <<>>
  /\ jobs_left = MaxJobs
  /\ operation_type = "none"
  /\ thr_pc = "none"
  /\ is_cancelled = FALSE
  /\ loop_i = 0
  /\ total_pages = 0
  /\ processed_count = 0
  /\ tasks = <<>>
  /\ harvested = {}
  /\ late_starts = 0
  /\ unreported = {}
  /\ last_progress = <<0, 0>>
  /\ terminal = NoEvent
  /\ load_message = "none"
  /\ page_counter = 0
  /\ files = EmptyBag
  /\ imports = 0

\* A session with the default configuration, which has both presets (the
\* tests look the HTR preset up in it), and a Store of InitStores.
Init ==
  /\ main_df \in InitStores
  /\ function_presets = PresetNames
  /\ imp = [t \in 1..MaxImports |-> NoImport]
  /\ project_directory = NoDirectory
  /\ backend = NoCall
  /\ returned = NoCall
  /\ InitSession

\* ------------------------------------------------------------ GUI thread
\* QThread.isRunning of current_thread (false when there is no thread)
IsRunning == thr_pc \notin {"none", "finished"}

\* The controls that lead to start_ai_processing: the four buttons of the
\* tab, disabled by set_processing_state(True), and the two toolbar actions
\* (HTR, Correct), which are never disabled.
ControlEnabled(op) == op \in {"htr_all", "correct_text"} \/ ~processing

\* ProcessTab.start_ai_processing, lines 757-771
CreateThread(op) ==
  /\ jobs_left' = jobs_left - 1
  /\ data' = main_df
  /\ shared' = TRUE
  /\ operation_type' = op
  /\ thr_pc' = "start"
  /\ is_cancelled' = FALSE
  /\ loop_i' = 0
  /\ total_pages' = 0
  /\ processed_count' = 0
  /\ tasks' = <<>>
  /\ harvested' = {}
  /\ late_starts' = 0
  /\ unreported' = {}
  /\ last_progress' = <<0, 0>>
  /\ terminal' = NoEvent
  /\ processing' = TRUE
  /\ UNCHANGED <<main_df, main_pc, sigq, function_presets, project_directory,
                 load_message, page_counter, files, backend_vars, imports,
                 imp>>

\* ProcessTab.start_ai_processing, lines 753-755: the QMessageBox.warning
RejectJob ==
  /\ main_pc' = "warning"
  /\ UNCHANGED <<main_df, data, shared, processing, sigq, jobs_left,
                 function_presets, project_directory, load_message,
                 page_counter, files, backend_vars, imports, imp,
                 thread_vars>>

\* start_ai_processing without the check of lines 753-755
StartAI_Unguarded(op) ==
  /\ main_pc = "idle"
  /\ ControlEnabled(op)
  /\ CreateThread(op)

\* ProcessTab.start_ai_processing(operation_type)
StartAI(op) ==
  /\ main_pc = "idle"
  /\ ControlEnabled(op)
  /\ IF IsRunning THEN RejectJob ELSE jobs_left > 0 /\ CreateThread(op)

\* The user closes the warning box; start_ai_processing returns.
DismissWarning ==
  /\ main_pc = "warning"
  /\ main_pc' = "idle"
  /\ UNCHANGED <<main_df, data, shared, processing, sigq, jobs_left,
                 function_presets, project_directory, load_message,
                 page_counter, files, backend_vars, imports, imp,
                 thread_vars>>

\* ProcessTab.cancel_processing, up to current_thread.wait(); the cancel
\* button is visible only in the processing state.
CancelProcessing ==
  /\ main_pc = "idle"
  /\ processing
  /\ IsRunning
  /\ is_cancelled' = TRUE
  /\ main_pc' = "waiting"
  /\ UNCHANGED <<main_df, data, shared, processing, sigq, jobs_left,
                 function_presets, project_directory, load_message,
                 page_counter, files, backend_vars, imports, imp,
                 operation_type, thr_pc, loop_i, total_pages, processed_count,
                 tasks, harvested, late_starts, unreported, last_progress,
                 terminal>>

\* ProcessTab.cancel_processing, after current_thread.wait() has returned
CancelReturn ==
  /\ main_pc = "waiting"
  /\ ~IsRunning
  /\ processing' = FALSE
  /\ main_pc' = "idle"
  /\ UNCHANGED <<main_df, data, shared, sigq, jobs_left, function_presets,
                 project_directory, load_message, page_counter, files,
                 backend_vars, imports, imp, thread_vars>>

\* ProcessTab.on_processing_complete / on_error_occurred: the queued signal
\* is delivered by the event loop of the GUI thread.
HandleSignal ==
  /\ main_pc = "idle"
  /\ sigq # <<>>
  /\ sigq' = Tail(sigq)
  /\ processing' = FALSE
  /\ UNCHANGED <<main_df, data, shared, main_pc, jobs_left, function_presets,
                 project_directory, load_message, page_counter, files,
                 backend_vars, imports, imp, thread_vars>>

\* ------------------------------------------------------------ PDF import
\* ProjectTab.start_pdf_import: no check of any running thread; the
\* session starts no more imports than imp has places.
StartPdfImport(n) ==
  /\ main_pc = "idle"
  /\ imports < Len(imp)
  /\ imports' = imports + 1
  /\ imp' = [imp EXCEPT ![imports + 1] =
               [NoImport EXCEPT !.pc = "open", !.total = n]]
  /\ UNCHANGED <<main_df, data, shared, main_pc, processing, sigq, jobs_left,
                 function_presets, project_directory, load_message,
                 page_counter, files, backend_vars, thread_vars>>

\* an import that sets page_counter before it opens the document
ImportOpen_CounterFirst(t) ==
  /\ imp[t].pc = "open"
  /\ page_counter' = Len(main_df)
  /\ \/ imp' = [imp EXCEPT ![t].pc = "finished", ![t].result = "error",
                           ![t].failed_at = "open", ![t].events = @ + 1]
     \/ imp' = [imp EXCEPT ![t].pc = "pages",
                           ![t].start_index = Len(main_df)]
  /\ UNCHANGED <<main_df, data, shared, main_pc, processing, sigq, jobs_left,
                 function_presets, project_directory, load_message, files,
                 backend_vars, imports, thread_vars>>

\* PDFImportThread.run, lines 374-394: fitz.open raises (the handler of
\* line 482 emits import_error), or the document is open and start_index
\* is read.
ImportOpen(t) ==
  /\ imp[t].pc = "open"
  /\ \/ imp' = [imp EXCEPT ![t].pc = "finished", ![t].result = "error",
                           ![t].failed_at = "open", ![t].events = @ + 1]
     \/ imp' = [imp EXCEPT ![t].pc = "pages",
                           ![t].start_index = Len(main_df)]
  /\ UNCHANGED <<main_df, data, shared, main_pc, processing, sigq, jobs_left,
                 function_presets, project_directory, load_message,
                 page_counter, files, backend_vars, imports, thread_vars>>

\* PDFImportThread.cancel, lines 485-487
ImportCancel(t) ==
  /\ imp[t].pc \in {"open", "pages"}
  /\ ~imp[t].is_cancelled
  /\ imp' = [imp EXCEPT ![t].is_cancelled = TRUE]
  /\ UNCHANGED <<main_df, data, shared, main_pc, processing, sigq, jobs_left,
                 function_presets, project_directory, load_message,
                 page_counter, files, backend_vars, imports, thread_vars>>

\* The image file of the page: new_page_num_str of line 424, the two
\* numbers of which are formatted from new_index + 1.
FileToken(new_index) == <<new_index + 1, new_index + 1>>

\* an import that reports a failed page and goes on with the next one
ImportPage_ReportAndSkip(t, txt) ==
  /\ imp[t].pc = "pages"
  /\ ~imp[t].is_cancelled
  /\ imp[t].page_num < imp[t].total
  /\ LET new_index == imp[t].start_index + imp[t].page_num
         saved == files (+) SetToBag({FileToken(new_index)})
     IN \/ /\ imp' = [imp EXCEPT ![t].page_num = @ + 1,
                                 ![t].result = "error",
                                 ![t].failed_at = "page",
                                 ![t].events = @ + 1]
           /\ UNCHANGED files
        \/ /\ imp' = [imp EXCEPT
                        ![t].page_num = @ + 1,
                        ![t].new_rows = Append(@, PdfRow(new_index, txt))]
           /\ files' = saved
  /\ UNCHANGED <<main_df, data, shared, main_pc, processing, sigq, jobs_left,
                 function_presets, project_directory, load_message,
                 page_counter, backend_vars, imports, thread_vars>>

\* PDFImportThread.run, lines 399-464: one page of the batch loops, which
\* both test is_cancelled.  An exception of get_pixmap (before the image
\* is saved) or of get_text (after it) leaves both loops for the handler
\* of line 482; else the row is appended to new_rows_list, and after the
\* last page of a batch the outer loop moves to the next batch.
ImportPage(t, txt) ==
  /\ imp[t].pc = "pages"
  /\ ~imp[t].is_cancelled
  /\ imp[t].page_num < imp[t].total
  /\ imp[t].page_num < imp[t].batch_start + pdf_batch_size
  /\ LET new_index == imp[t].start_index + imp[t].page_num
         saved == files (+) SetToBag({FileToken(new_index)})
         failed == [imp EXCEPT ![t].pc = "finished", ![t].new_rows = <<>>,
                               ![t].result = "error", ![t].failed_at = "page",
                               ![t].events = @ + 1]
     IN \/ /\ imp' = failed
           /\ UNCHANGED files
        \/ /\ imp' = failed
           /\ files' = saved
        \/ /\ imp' = [imp EXCEPT
                        ![t].page_num = @ + 1,
                        ![t].new_rows = Append(@, PdfRow(new_index, txt)),
                        ![t].batch_start =
                          IF imp[t].page_num + 1 = @ + pdf_batch_size
                          THEN @ + pdf_batch_size ELSE @]
           /\ files' = saved
  /\ UNCHANGED <<main_df, data, shared, main_pc, processing, sigq, jobs_left,
                 function_presets, project_directory, load_message,
                 page_counter, backend_vars, imports, thread_vars>>

\* an import that appends what it has, cancelled or not
ImportFinish_IgnoreCancel(t) ==
  /\ imp[t].pc = "pages"
  /\ imp[t].page_num = imp[t].total \/ imp[t].is_cancelled
  /\ IF imp[t].new_rows # <<>>
     THEN /\ main_df' = Concat(main_df, imp[t].new_rows)
          /\ shared' = FALSE
          /\ page_counter' = imp[t].start_index
          /\ imp' = [imp EXCEPT ![t].pc = "finished", ![t].new_rows = <<>>,
                                ![t].result = "complete",
                                ![t].appended = Len(imp[t].new_rows),
                                ![t].events = @ + 1]
     ELSE /\ imp' = [imp EXCEPT ![t].pc = "finished", ![t].result = "error",
                                ![t].failed_at = "empty",
                                ![t].events = @ + 1]
          /\ UNCHANGED <<main_df, shared, page_counter>>
  /\ UNCHANGED <<data, main_pc, processing, sigq, jobs_left, function_presets,
                 project_directory, load_message, files, backend_vars,
                 imports, thread_vars>>

\* PDFImportThread.run, lines 466-480, after the loops have ended or were
\* left on is_cancelled: the rows are appended to a new frame that main_df
\* is rebound to, and import_complete reports their number; a cancelled
\* import and one with no row emit import_error.
ImportFinish(t) ==
  /\ imp[t].pc = "pages"
  /\ imp[t].page_num = imp[t].total \/ imp[t].is_cancelled
  /\ IF ~imp[t].is_cancelled /\ imp[t].new_rows # <<>>
     THEN /\ main_df' = Concat(main_df, imp[t].new_rows)
          /\ shared' = FALSE
          /\ page_counter' = imp[t].start_index
          /\ imp' = [imp EXCEPT ![t].pc = "finished", ![t].new_rows = <<>>,
                                ![t].result = "complete",
                                ![t].appended = Len(imp[t].new_rows),
                                ![t].events = @ + 1]
     ELSE /\ imp' = [imp EXCEPT ![t].pc = "finished", ![t].new_rows = <<>>,
                                ![t].result = "error",
                                ![t].failed_at =
                                  IF imp[t].is_cancelled THEN "cancelled"
                                  ELSE "empty",
                                ![t].events = @ + 1]
          /\ UNCHANGED <<main_df, shared, page_counter>>
  /\ UNCHANGED <<data, main_pc, processing, sigq, jobs_left, function_presets,
                 project_directory, load_message, files, backend_vars,
                 imports, thread_vars>>

\* ------------------------------------------------------------ AI job
\* A signal emitted by the thread: recorded, and queued to the GUI thread.
Emit(ev) ==
  /\ terminal' = ev
  /\ sigq' = Append(sigq, ev.kind)

\* A write of a worker through self.data: seen through main_df as well when
\* both names refer to the same frame.
WriteData(df) ==
  /\ data' = df
  /\ main_df' = IF shared THEN df ELSE main_df

\* run returns: the thread has finished, the locals of its method are gone.
Return ==
  /\ thr_pc' = "finished"
  /\ loop_i' = 0
  /\ total_pages' = 0
  /\ processed_count' = 0
  /\ tasks' = <<>>
  /\ harvested' = {}

\* process_htr_all / process_text_correction, lines 71-79 and 229-237
JobStart ==
  /\ thr_pc = "start"
  /\ operation_type \in {"htr_all", "correct_text"}
  /\ IF data = <<>>
     THEN /\ Emit(Event("error", 0, 0))
          /\ Return
     ELSE /\ total_pages' = Len(data)
          /\ tasks' = IF operation_type = "htr_all"
                      THEN [k \in 1..Len(data) |-> NoTask] ELSE <<>>
          /\ thr_pc' = IF operation_type = "htr_all" THEN "submit"
                       ELSE "corr_loop"
          /\ UNCHANGED <<terminal, sigq, loop_i, processed_count, harvested>>
  /\ UNCHANGED <<main_df, data, shared, main_pc, processing, jobs_left,
                 function_presets, project_directory, load_message,
                 page_counter, files, backend_vars, imports, imp,
                 operation_type, is_cancelled, late_starts, unreported,
                 last_progress>>

\* process_htr_all, lines 86-92: one round of the submit loop
HTRSubmit ==
  /\ thr_pc = "submit"
  /\ IF loop_i = total_pages \/ is_cancelled
     THEN /\ thr_pc' = "harvest"
          /\ UNCHANGED <<tasks, loop_i>>
     ELSE /\ tasks' = [tasks EXCEPT ![loop_i + 1] =
                         [NoTask EXCEPT !.st = "queued",
                            !.img = data[loop_i + 1].Image_Path]]
          /\ loop_i' = loop_i + 1
          /\ UNCHANGED thr_pc
  /\ UNCHANGED <<main_df, data, shared, main_pc, processing, sigq, jobs_left,
                 function_presets, project_directory, load_message,
                 page_counter, files, backend_vars, imports, imp,
                 operation_type, is_cancelled, total_pages, processed_count,
                 harvested, late_starts, unreported, last_progress, terminal>>

\* The page tasks a worker thread of the executor is executing.
Executing ==
  {k \in 1..Len(tasks) : tasks[k].st \in {"calling", "creating", "wrote"}}

\* an executor with one worker thread for each page
WorkerFree_PerPage == Cardinality(Executing) < total_pages

\* ThreadPoolExecutor(max_workers=batch_size): a worker thread is free
WorkerFree == Cardinality(Executing) < batch_size

\* A worker takes the oldest queued work item: process_single_page_htr,
\* lines 124-166, up to the provider call.  Without image path, image file
\* or HTR preset the task returns False.
TaskStart(k) ==
  /\ k \in 1..Len(tasks)
  /\ tasks[k].st = "queued"
  /\ \A j \in 1..(k - 1) : tasks[j].st # "queued"
  /\ WorkerFree
  /\ IF \/ tasks[k].img = ""
        \/ ~PathExists(tasks[k].img)
        \/ "HTR" \notin function_presets
     THEN /\ tasks' = [tasks EXCEPT ![k].st = "done"]
          /\ unreported' = unreported \cup {k}
          /\ UNCHANGED late_starts
     ELSE /\ tasks' = [tasks EXCEPT ![k].st = "calling"]
          /\ late_starts' = late_starts + (IF is_cancelled THEN 1 ELSE 0)
          /\ UNCHANGED unreported
  /\ UNCHANGED <<main_df, data, shared, main_pc, processing, sigq, jobs_left,
                 function_presets, project_directory, load_message,
                 page_counter, files, backend_vars, imports, imp,
                 operation_type, thr_pc, is_cancelled, loop_i, total_pages,
                 processed_count, harvested, last_progress, terminal>>

\* process_single_page_htr, lines 162-178: the provider call returns r
TaskReturn(k, r) ==
  /\ k \in 1..Len(tasks)
  /\ tasks[k].st = "calling"
  /\ IF r # "" /\ Strip(r) # ""
     THEN IF HasColumn(data, "Original_Text")
          THEN /\ WriteData(SetCell(data, k, "Original_Text", r))
               /\ tasks' = [tasks EXCEPT ![k].st = "wrote", ![k].res = r]
               /\ UNCHANGED unreported
          ELSE /\ tasks' = [tasks EXCEPT ![k].st = "creating", ![k].res = r]
               /\ UNCHANGED <<main_df, data, unreported>>
     ELSE /\ tasks' = [tasks EXCEPT ![k].st = "done"]
          /\ unreported' = unreported \cup {k}
          /\ UNCHANGED <<main_df, data>>
  /\ UNCHANGED <<shared, main_pc, processing, sigq, jobs_left,
                 function_presets, project_directory, load_message,
                 page_counter, files, backend_vars, imports, imp,
                 operation_type, thr_pc, is_cancelled, loop_i, total_pages,
                 processed_count, harvested, late_starts, last_progress,
                 terminal>>

\* process_single_page_htr, line 172, on a frame that had no Original_Text
\* column when the write began: the column is installed and the cell set.
\* Another worker may have done the same in between; its cell is then lost.
TaskCreate(k) ==
  /\ k \in 1..Len(tasks)
  /\ tasks[k].st = "creating"
  /\ WriteData(CreateColumn(data, k, "Original_Text", tasks[k].res))
  /\ tasks' = [tasks EXCEPT ![k].st = "wrote"]
  /\ UNCHANGED <<shared, main_pc, processing, sigq, jobs_left,
                 function_presets, project_directory, load_message,
                 page_counter, files, backend_vars, imports, imp,
                 operation_type, thr_pc, is_cancelled, loop_i, total_pages,
                 processed_count, harvested, late_starts, unreported,
                 last_progress, terminal>>

\* process_single_page_htr, lines 173-174
TaskToggle(k) ==
  /\ k \in 1..Len(tasks)
  /\ tasks[k].st = "wrote"
  /\ WriteData(SetCell(data, k, "Text_Toggle", "Original_Text"))
  /\ tasks' = [tasks EXCEPT ![k].st = "done", ![k].ok = TRUE]
  /\ unreported' = unreported \cup {k}
  /\ UNCHANGED <<shared, main_pc, processing, sigq, jobs_left,
                 function_presets, project_directory, load_message,
                 page_counter, files, backend_vars, imports, imp,
                 operation_type, thr_pc, is_cancelled, loop_i, total_pages,
                 processed_count, harvested, late_starts, last_progress,
                 terminal>>

\* The futures of future_to_page
Submitted == {k \in 1..Len(tasks) : tasks[k].st # "none"}

\* progress_updated carrying the row of the page that completed
HTRProgress_PageIndex(k) == <<k, total_pages>>

\* process_htr_all, lines 106-107: progress_updated(processed_count,
\* total_pages), emitted for the future of row k
HTRProgress(k) == <<processed_count', total_pages>>

\* process_htr_all, lines 95-110: as_completed yields a finished future
HTRHarvest(k) ==
  /\ thr_pc = "harvest"
  /\ k \in Submitted \ harvested
  /\ tasks[k].st = "done"
  /\ IF is_cancelled
     THEN /\ thr_pc' = "shutdown"
          /\ UNCHANGED <<harvested, processed_count, last_progress,
                         unreported>>
     ELSE /\ harvested' = harvested \cup {k}
          /\ processed_count' = processed_count + (IF tasks[k].ok THEN 1 ELSE 0)
          /\ last_progress' = HTRProgress(k)
          /\ unreported' = {}
          /\ UNCHANGED thr_pc
  /\ UNCHANGED <<main_df, data, shared, main_pc, processing, sigq, jobs_left,
                 function_presets, project_directory, load_message,
                 page_counter, files, backend_vars, imports, imp,
                 operation_type, is_cancelled, loop_i, total_pages, tasks,
                 late_starts, terminal>>

\* process_htr_all: as_completed is exhausted
HTRHarvestEnd ==
  /\ thr_pc = "harvest"
  /\ harvested = Submitted
  /\ thr_pc' = "shutdown"
  /\ UNCHANGED <<main_df, data, shared, main_pc, processing, sigq, jobs_left,
                 function_presets, project_directory, load_message,
                 page_counter, files, backend_vars, imports, imp,
                 operation_type, is_cancelled, loop_i, total_pages,
                 processed_count, tasks, harvested, late_starts, unreported,
                 last_progress, terminal>>

\* an executor left with shutdown(wait=False)
HTRShutdown_NoWait ==
  /\ thr_pc = "shutdown"
  /\ thr_pc' = "final"
  /\ UNCHANGED <<main_df, data, shared, main_pc, processing, sigq, jobs_left,
                 function_presets, project_directory, load_message,
                 page_counter, files, backend_vars, imports, imp,
                 operation_type, is_cancelled, loop_i, total_pages,
                 processed_count, tasks, harvested, late_starts, unreported,
                 last_progress, terminal>>

\* process_htr_all, the end of the with block of line 82:
\* executor.shutdown(wait=True) returns when every submitted task has run.
HTRShutdown ==
  /\ thr_pc = "shutdown"
  /\ \A k \in 1..Len(tasks) : tasks[k].st \in {"none", "done"}
  /\ thr_pc' = "final"
  /\ UNCHANGED <<main_df, data, shared, main_pc, processing, sigq, jobs_left,
                 function_presets, project_directory, load_message,
                 page_counter, files, backend_vars, imports, imp,
                 operation_type, is_cancelled, loop_i, total_pages,
                 processed_count, tasks, harvested, late_starts, unreported,
                 last_progress, terminal>>

\* process_htr_all, lines 112-117; process_text_correction, lines 254-259:
\* the terminal processing_complete signal
JobFinal ==
  /\ thr_pc = "final"
  /\ IF ~is_cancelled
     THEN /\ Emit(Event("completed", processed_count, total_pages))
          /\ thr_pc' = "sync"
          /\ UNCHANGED <<loop_i, total_pages, processed_count, tasks,
                         harvested>>
     ELSE /\ Emit(Event("cancelled", processed_count, total_pages))
          /\ Return
  /\ UNCHANGED <<main_df, data, shared, main_pc, processing, jobs_left,
                 function_presets, project_directory, load_message,
                 page_counter, files, backend_vars, imports, imp,
                 operation_type, is_cancelled, late_starts, unreported,
                 last_progress>>

\* a hand-back whose exception reaches the handler of the job method
SyncDataframe_Unprotected ==
  /\ thr_pc = "sync"
  /\ \/ /\ main_df' = data
        /\ shared' = FALSE
        /\ UNCHANGED <<terminal, sigq>>
     \/ /\ Emit(Event("error", 0, 0))
        /\ UNCHANGED <<main_df, shared>>
  /\ Return
  /\ UNCHANGED <<data, main_pc, processing, jobs_left, function_presets,
                 project_directory, load_message, page_counter, files,
                 backend_vars, imports, imp, operation_type, is_cancelled,
                 late_starts, unreported, last_progress>>

\* AIProcessingThread.sync_dataframe_to_main_window, lines 343-356
SyncDataframe ==
  /\ thr_pc = "sync"
  /\ main_df' = data
  /\ shared' = FALSE
  /\ Return
  /\ UNCHANGED <<data, main_pc, processing, sigq, jobs_left, function_presets,
                 project_directory, load_message, page_counter, files,
                 backend_vars, imports, imp, operation_type, is_cancelled,
                 late_starts, unreported, last_progress, terminal>>

\* a gate that also skips the pages that have a Corrected_Text
CorrGate_SkipCorrected(row) ==
  /\ Strip(Get(row, "Original_Text")) # ""
  /\ Get(row, "Corrected_Text") = ""

\* process_text_correction, line 249: "Only process if there's original
\* text"
CorrGate(row) == Strip(Get(row, "Original_Text")) # ""

\* a progress event that carries the pages left instead of the total
CorrProgress_Remaining == <<loop_i + 1, total_pages - loop_i - 1>>

\* process_text_correction, line 243: progress_updated.emit(i + 1,
\* total_pages, ...)
CorrProgress == <<loop_i + 1, total_pages>>

\* process_text_correction, lines 239-250: one round of the loop, up to the
\* provider call of process_single_page_correction (which returns False
\* when there is no Correct_Text preset).  Original_Text that is no string
\* has no strip(): the AttributeError reaches line 261.
CorrLoop ==
  /\ thr_pc = "corr_loop"
  /\ IF loop_i = total_pages \/ is_cancelled
     THEN /\ thr_pc' = "final"
          /\ UNCHANGED <<loop_i, last_progress, terminal, sigq, total_pages,
                         processed_count, tasks, harvested>>
     ELSE /\ last_progress' = CorrProgress
          /\ LET ot == Get(data[loop_i + 1], "Original_Text") IN
             IF ot = NaN
             THEN /\ Emit(Event("error", 0, 0))
                  /\ Return
             ELSE IF /\ CorrGate(data[loop_i + 1])
                     /\ "Correct_Text" \in function_presets
             THEN /\ thr_pc' = "corr_call"
                  /\ UNCHANGED <<loop_i, terminal, sigq, total_pages,
                                 processed_count, tasks, harvested>>
             ELSE /\ loop_i' = loop_i + 1
                  /\ UNCHANGED <<thr_pc, terminal, sigq, total_pages,
                                 processed_count, tasks, harvested>>
  /\ UNCHANGED <<main_df, data, shared, main_pc, processing, jobs_left,
                 function_presets, project_directory, load_message,
                 page_counter, files, backend_vars, imports, imp,
                 operation_type, is_cancelled, late_starts, unreported>>

\* process_single_page_correction, lines 294-307: the provider call returns
CorrReturn(r) ==
  /\ thr_pc = "corr_call"
  /\ IF r # "" /\ Strip(r) # ""
     THEN /\ WriteData(SetCell(data, loop_i + 1, "Corrected_Text", r))
          /\ thr_pc' = "corr_wrote"
          /\ UNCHANGED loop_i
     ELSE /\ thr_pc' = "corr_loop"
          /\ loop_i' = loop_i + 1
          /\ UNCHANGED <<main_df, data>>
  /\ UNCHANGED <<shared, main_pc, processing, sigq, jobs_left,
                 function_presets, project_directory, load_message,
                 page_counter, files, backend_vars, imports, imp,
                 operation_type, is_cancelled, total_pages, processed_count,
                 tasks, harvested, late_starts, unreported, last_progress,
                 terminal>>

\* process_single_page_correction, lines 304-305, and lines 251-252
CorrToggle ==
  /\ thr_pc = "corr_wrote"
  /\ WriteData(SetCell(data, loop_i + 1, "Text_Toggle", "Corrected_Text"))
  /\ processed_count' = processed_count + 1
  /\ loop_i' = loop_i + 1
  /\ thr_pc' = "corr_loop"
  /\ UNCHANGED <<shared, main_pc, processing, sigq, jobs_left,
                 function_presets, project_directory, load_message,
                 page_counter, files, backend_vars, imports, imp,
                 operation_type, is_cancelled, total_pages, tasks, harvested,
                 late_starts, unreported, last_progress, terminal>>

\* process_translation / process_metadata_extraction: total_items
SimStart ==
  /\ thr_pc = "start"
  /\ operation_type \in {"translate", "extract_metadata"}
  /\ total_pages' = IF operation_type = "translate" THEN TranslateItems
                    ELSE MetadataItems
  /\ thr_pc' = "sim_loop"
  /\ UNCHANGED <<main_df, data, shared, main_pc, processing, sigq, jobs_left,
                 function_presets, project_directory, load_message,
                 page_counter, files, backend_vars, imports, imp,
                 operation_type, is_cancelled, loop_i, processed_count, tasks,
                 harvested, late_starts, unreported, last_progress, terminal>>

\* process_translation, lines 317-321; process_metadata_extraction, 330-334
SimLoop ==
  /\ thr_pc = "sim_loop"
  /\ IF loop_i = total_pages \/ is_cancelled
     THEN /\ thr_pc' = "sim_final"
          /\ UNCHANGED <<loop_i, last_progress>>
     ELSE /\ last_progress' = <<loop_i + 1, total_pages>>
          /\ loop_i' = loop_i + 1
          /\ UNCHANGED thr_pc
  /\ UNCHANGED <<main_df, data, shared, main_pc, processing, sigq, jobs_left,
                 function_presets, project_directory, load_message,
                 page_counter, files, backend_vars, imports, imp,
                 operation_type, is_cancelled, total_pages, processed_count,
                 tasks, harvested, late_starts, unreported, terminal>>

\* process_translation, lines 323-324; process_metadata_extraction, 336-337
SimFinal ==
  /\ thr_pc = "sim_final"
  /\ IF ~is_cancelled
     THEN Emit(Event("completed", 0, 0))
     ELSE UNCHANGED <<terminal, sigq>>
  /\ Return
  /\ UNCHANGED <<main_df, data, shared, main_pc, processing, jobs_left,
                 function_presets, project_directory, load_message,
                 page_counter, files, backend_vars, imports, imp,
                 operation_type, is_cancelled, late_starts, unreported,
                 last_progress>>

\* ------------------------------------------------------------ system
\* The row numbers of the longest Store a session can build.
Rows == 1..(MaxPages + MaxImports * MaxPdfPages)

Next ==
  \/ \E op \in JobTypes : StartAI(op)
  \/ DismissWarning
  \/ CancelProcessing
  \/ CancelReturn
  \/ HandleSignal
  \/ \E n \in 0..MaxPdfPages : StartPdfImport(n)
  \/ \E t \in 1..MaxImports : ImportOpen(t)
  \/ \E t \in 1..MaxImports, txt \in {"", "ta"} : ImportPage(t, txt)
  \/ \E t \in 1..MaxImports : ImportFinish(t)
  \/ JobStart
  \/ HTRSubmit
  \/ \E k \in Rows : TaskStart(k)
  \/ \E k \in Rows, r \in ProviderResults : TaskReturn(k, r)
  \/ \E k \in Rows : TaskCreate(k)
  \/ \E k \in Rows : TaskToggle(k)
  \/ \E k \in Rows : HTRHarvest(k)
  \/ HTRHarvestEnd
  \/ HTRShutdown
  \/ JobFinal
  \/ SyncDataframe
  \/ CorrLoop
  \/ \E r \in ProviderResults : CorrReturn(r)
  \/ CorrToggle
  \/ SimStart
  \/ SimLoop
  \/ SimFinal

Spec == Init /\ [][Next]_vars

\* An HTR job alone: the submissions, the cancel button and the job.
NextHTR ==
  \/ StartAI("htr_all")
  \/ DismissWarning
  \/ CancelProcessing
  \/ CancelReturn
  \/ HandleSignal
  \/ JobStart
  \/ HTRSubmit
  \/ \E k \in Rows : TaskStart(k)
  \/ \E k \in Rows, r \in ProviderResults : TaskReturn(k, r)
  \/ \E k \in Rows : TaskCreate(k)
  \/ \E k \in Rows : TaskToggle(k)
  \/ \E k \in Rows : HTRHarvest(k)
  \/ HTRHarvestEnd
  \/ HTRShutdown
  \/ JobFinal
  \/ SyncDataframe

SpecHTR == Init /\ [][NextHTR]_vars

\* The Stores an earlier HTR run has filled.
ProcessedStores ==
  UNION {{[k \in 1..n |-> ProcessedRow(k - 1, f[k])]
            : f \in [1..n -> ImagePaths \ {""}]}
         : n \in 1..MaxPages}

\* A session over a new or an already processed Store, with any
\* configuration: function_presets has the HTR and Correct_Text presets
\* or lacks them.
InitConfigured ==
  /\ main_df \in InitStores \cup ProcessedStores
  /\ function_presets \in SUBSET PresetNames
  /\ imp = [t \in 1..MaxImports |-> NoImport]
  /\ project_directory = NoDirectory
  /\ backend = NoCall
  /\ returned = NoCall
  /\ InitSession

\* The page jobs alone: HTR and text correction, no import.
NextPages ==
  \/ \E op \in {"htr_all", "correct_text"} : StartAI(op)
  \/ DismissWarning
  \/ CancelProcessing
  \/ CancelReturn
  \/ HandleSignal
  \/ JobStart
  \/ HTRSubmit
  \/ \E k \in Rows : TaskStart(k)
  \/ \E k \in Rows, r \in ProviderResults : TaskReturn(k, r)
  \/ \E k \in Rows : TaskCreate(k)
  \/ \E k \in Rows : TaskToggle(k)
  \/ \E k \in Rows : HTRHarvest(k)
  \/ HTRHarvestEnd
  \/ HTRShutdown
  \/ JobFinal
  \/ SyncDataframe
  \/ CorrLoop
  \/ \E r \in ProviderResults : CorrReturn(r)
  \/ CorrToggle

SpecPages == InitConfigured /\ [][NextPages]_vars

\* A re-run: an HTR job over a Store an earlier HTR run has filled, with
\* the default configuration.
InitRerun ==
  /\ main_df \in ProcessedStores
  /\ function_presets = PresetNames
  /\ imp = [t \in 1..MaxImports |-> NoImport]
  /\ project_directory = NoDirectory
  /\ backend = NoCall
  /\ returned = NoCall
  /\ InitSession

\* The steps of an HTR job over a frame that has the Original_Text column.
NextRerun ==
  \/ StartAI("htr_all")
  \/ DismissWarning
  \/ CancelProcessing
  \/ CancelReturn
  \/ HandleSignal
  \/ JobStart
  \/ HTRSubmit
  \/ \E k \in Rows : TaskStart(k)
  \/ \E k \in Rows, r \in ProviderResults : TaskReturn(k, r)
  \/ \E k \in Rows : TaskToggle(k)
  \/ \E k \in Rows : HTRHarvest(k)
  \/ HTRHarvestEnd
  \/ HTRShutdown
  \/ JobFinal
  \/ SyncDataframe

SpecRerun == InitRerun /\ [][NextRerun]_vars

\* The steps of the job thread and of the workers of its executor, which
\* the scheduler of the operating system runs when they can run.  The
\* return of a provider call (TaskReturn) is not among them: nothing in
\* call_ai_api_thread_safe makes a call return.
ThreadStep ==
  \/ JobStart
  \/ HTRSubmit
  \/ \E k \in Rows : TaskStart(k)
  \/ \E k \in Rows : TaskCreate(k)
  \/ \E k \in Rows : TaskToggle(k)
  \/ \E k \in Rows : HTRHarvest(k)
  \/ HTRHarvestEnd
  \/ HTRShutdown
  \/ JobFinal
  \/ SyncDataframe

\* An HTR job alone, under a fair scheduler.
SpecHTRFair == Init /\ [][NextHTR]_vars /\ WF_vars(ThreadStep)

\* The Stores of a session that only imports: test rows with images.
ImportStores ==
  {[k \in 1..n |-> TestRow(k - 1, "img.jpg")] : n \in 0..MaxPages}

\* A session of PDF imports, with a place for each import it can start.
InitImport ==
  /\ main_df \in ImportStores
  /\ function_presets = PresetNames
  /\ imp = [t \in 1..MaxImportThreads |-> NoImport]
  /\ project_directory = NoDirectory
  /\ backend = NoCall
  /\ returned = NoCall
  /\ InitSession

\* The PDF imports alone: the Import button and the import threads.
NextImport ==
  \/ \E n \in 0..MaxImportPages : StartPdfImport(n)
  \/ \E t \in 1..MaxImportThreads : ImportOpen(t)
  \/ \E t \in 1..MaxImportThreads, txt \in {"", "ta"} : ImportPage(t, txt)
  \/ \E t \in 1..MaxImportThreads : ImportFinish(t)

SpecImport == InitImport /\ [][NextImport]_vars

\* The PDF imports with callers of PDFImportThread.cancel.
NextImportCancel ==
  \/ NextImport
  \/ \E t \in 1..MaxImportThreads : ImportCancel(t)

SpecImportCancel == InitImport /\ [][NextImportCancel]_vars

\* A page an earlier text-correction run has corrected (lines 302-305).
CorrectedRow(i, p) ==
  [Index |-> i, Image_Path |-> p, Original_Text |-> "tb",
   Corrected_Text |-> "tc", Text_Toggle |-> "Corrected_Text"]

\* The Stores of a text-correction job: new pages, pages with text, pages
\* already corrected.
CorrStores ==
  UNION {[1..n -> {TestRow(0, "img.jpg"), ProcessedRow(0, "img.jpg"),
                   CorrectedRow(0, "img.jpg"), FolderRow("img.jpg")}]
         : n \in 0..MaxPages}

InitCorrect ==
  /\ main_df \in CorrStores
  /\ function_presets = PresetNames
  /\ imp = [t \in 1..MaxImports |-> NoImport]
  /\ project_directory = NoDirectory
  /\ backend = NoCall
  /\ returned = NoCall
  /\ InitSession

\* A text-correction job alone, with the cancel button.
NextCorrect ==
  \/ StartAI("correct_text")
  \/ DismissWarning
  \/ CancelProcessing
  \/ CancelReturn
  \/ HandleSignal
  \/ JobStart
  \/ CorrLoop
  \/ \E r \in ProviderResults : CorrReturn(r)
  \/ CorrToggle
  \/ JobFinal
  \/ SyncDataframe

SpecCorrect == InitCorrect /\ [][NextCorrect]_vars

\* ------------------------------------------------------------ folders
\* What project_directory can be: not set, or a directory that os.listdir
\* cannot read or that holds some image files.
Directories ==
  {NoDirectory, [path |-> "dir", listable |-> FALSE, images |-> 0]}
  \cup {[path |-> "dir", listable |-> TRUE, images |-> n]
        : n \in 0..MaxFolderImages}

\* a loading that resets the application first, as open_folder does
load_files_from_folder_no_text_ResetFirst ==
  /\ main_pc = "idle"
  /\ main_df' = <<>>
  /\ shared' = FALSE
  /\ page_counter' = 0
  /\ load_message' = IF project_directory.path = ""
                     THEN "No directory selected." ELSE "No Files"
  /\ UNCHANGED <<data, main_pc, processing, sigq, jobs_left, function_presets,
                 project_directory, files, backend_vars, imports, imp,
                 thread_vars>>

\* ArchiveStudioQt.load_files_from_folder_no_text, lines 1671-1720
load_files_from_folder_no_text ==
  /\ main_pc = "idle"
  /\ IF project_directory.path = ""
     THEN /\ load_message' = "No directory selected."
          /\ UNCHANGED <<main_df, shared, page_counter>>
     ELSE IF ~project_directory.listable
     THEN /\ load_message' = "Failed to load files"
          /\ UNCHANGED <<main_df, shared, page_counter>>
     ELSE IF project_directory.images = 0
     THEN /\ load_message' = "No Files"
          /\ UNCHANGED <<main_df, shared, page_counter>>
     ELSE /\ main_df' = [k \in 1..project_directory.images
                           |-> FolderRow("img.jpg")]
          /\ shared' = FALSE
          /\ page_counter' = 0
          /\ load_message' = "loaded"
  /\ UNCHANGED <<data, main_pc, processing, sigq, jobs_left, function_presets,
                 project_directory, files, backend_vars, imports, imp,
                 thread_vars>>

\* A session that imports a PDF and loads the project directory.
InitFolder ==
  /\ main_df \in InitStores
  /\ function_presets = PresetNames
  /\ imp = [t \in 1..MaxImports |-> NoImport]
  /\ project_directory \in Directories
  /\ backend = NoCall
  /\ returned = NoCall
  /\ InitSession

NextFolder ==
  \/ load_files_from_folder_no_text
  \/ \E n \in 0..MaxPdfPages : StartPdfImport(n)
  \/ \E t \in 1..MaxImports : ImportOpen(t)
  \/ \E t \in 1..MaxImports, txt \in {"", "ta"} : ImportPage(t, txt)
  \/ \E t \in 1..MaxImports : ImportFinish(t)

SpecFolder == InitFolder /\ [][NextFolder]_vars

\* ------------------------------------------------------------ backends
\* The characters of a raw text: letters, and the whitespace that
\* str.strip() and str.split() take away ("\t" stands for every
\* whitespace character that is neither a blank nor a line break).
Letters == {"a", "b"}
Whitespace == {" ", "\t", "\n"}
Chars == Letters \cup Whitespace

Texts == UNION {[1..n -> Chars] : n \in 0..MaxTextLen}

\* str.strip()
StripText(s) ==
  LET idx == {i \in 1..Len(s) : s[i] \notin Whitespace} IN
  IF idx = {} THEN <<>>
  ELSE SubSeq(s, CHOOSE i \in idx : \A j \in idx : i <= j,
                 CHOOSE i \in idx : \A j \in idx : i >= j)

\* str.split(c)
RECURSIVE SplitOn(_, _)
SplitOn(s, c) ==
  LET idx == {i \in 1..Len(s) : s[i] = c} IN
  IF idx = {} THEN <<s>>
  ELSE LET k == CHOOSE i \in idx : \A j \in idx : i <= j IN
       <<SubSeq(s, 1, k - 1)>> \o SplitOn(SubSeq(s, k + 1, Len(s)), c)

\* str.split()
RECURSIVE SplitWords(_)
SplitWords(s) ==
  LET t == StripText(s)
      idx == {i \in 1..Len(t) : t[i] \in Whitespace}
  IN IF t = <<>> THEN <<>>
     ELSE IF idx = {} THEN <<t>>
     ELSE LET k == CHOOSE i \in idx : \A j \in idx : i <= j IN
          <<SubSeq(t, 1, k - 1)>> \o SplitWords(SubSeq(t, k, Len(t)))

\* sep.join(parts)
RECURSIVE JoinText(_, _)
JoinText(sep, parts) ==
  IF parts = <<>> THEN <<>>
  ELSE IF Len(parts) = 1 THEN parts[1]
  ELSE parts[1] \o sep \o JoinText(sep, Tail(parts))

\* re.sub(r'\n{3,}', '\n\n', s), line 154
RECURSIVE ReSubLineBreaks(_)
ReSubLineBreaks(s) ==
  IF s = <<>> THEN <<>>
  ELSE IF s[1] # "\n" THEN <<s[1]>> \o ReSubLineBreaks(Tail(s))
  ELSE LET other == {i \in 1..Len(s) : s[i] # "\n"}
           run == IF other = {} THEN Len(s)
                  ELSE (CHOOSE i \in other : \A j \in other : i <= j) - 1
       IN (IF run >= 3 THEN <<"\n", "\n">> ELSE SubSeq(s, 1, run))
          \o ReSubLineBreaks(SubSeq(s, run + 1, Len(s)))

\* a cleaning that keeps the spaces of a line
CollapseSpaces_Keep(line) == line

\* DocumentAIHandler.process_image, line 146: ' '.join(line.split())
CollapseSpaces(line) == JoinText(<<" ">>, SplitWords(line))

\* a cleaning that takes one whitespace character off the start of a line
RECURSIVE CleanedLines_TrimOne(_)
CleanedLines_TrimOne(lines) ==
  IF lines = <<>> THEN <<>>
  ELSE LET line == IF lines[1] # <<>> /\ lines[1][1] \in Whitespace
                   THEN Tail(lines[1]) ELSE lines[1]
       IN (IF StripText(line) # <<>> THEN <<line>> ELSE <<>>)
          \o CleanedLines_TrimOne(Tail(lines))

\* DocumentAIHandler.process_image, lines 139-147: the cleaned lines
RECURSIVE CleanedLines(_)
CleanedLines(lines) ==
  IF lines = <<>> THEN <<>>
  ELSE LET line == StripText(lines[1]) IN
       (IF line # <<>> THEN <<CollapseSpaces(line)>> ELSE <<>>)
       \o CleanedLines(Tail(lines))

\* a test that only knows the empty text
NoTextDetected_EmptyOnly(text) ==
  text.type = "NoneType" \/ text.val = <<>>

\* DocumentAIHandler.process_image, line 135
NoTextDetected(text) ==
  text.type = "NoneType" \/ text.val = <<>> \/ StripText(text.val) = <<>>

\* The text of line 136: 'No text detected in document'.
Placeholder ==
  <<"N", "o", " ", "t", "e", "x", "t", " ", "d", "e", "t", "e", "c", "t",
    "e", "d", " ", "i", "n", " ", "d", "o", "c", "u", "m", "e", "n", "t">>

\* DocumentAIHandler.process_image, lines 82-160, of the outcome b of the
\* backend: is_configured() and what client.process_document does.
process_image(b) ==
  IF ~b.configured THEN PyNone
  ELSE IF b.kind = "raises" THEN PyNone
  ELSE IF NoTextDetected(b.value) THEN PyStr(Placeholder)
  ELSE LET lines == SplitOn(b.value.val, "\n")
           cleaned_text == JoinText(<<"\n">>, CleanedLines(lines))
       IN PyStr(StripText(ReSubLineBreaks(cleaned_text)))

\* AIProcessingThread.call_ai_api_thread_safe, lines 186-225, of the
\* outcome b of route_api_call.
call_ai_api_thread_safe(b) ==
  IF b.kind = "raises" THEN PyStr(<<>>)
  ELSE LET result == b.value IN
       IF result.type = "tuple" /\ result.len >= 2
       THEN [type |-> result.item, val |-> result.val, len |-> 0,
             item |-> "none"]
       ELSE IF result.type = "str" THEN result
       ELSE PyStr(<<>>)

\* What client.process_document can do: raise, or give a document whose
\* text is any raw text; and the handler without configuration.
OcrOutcomes ==
  {[fn |-> "process_image", configured |-> FALSE, kind |-> "raises",
    value |-> PyNone],
   [fn |-> "process_image", configured |-> TRUE, kind |-> "raises",
    value |-> PyNone]}
  \cup {[fn |-> "process_image", configured |-> TRUE, kind |-> "returns",
         value |-> PyStr(t)] : t \in Texts}

\* What route_api_call can do: raise, or return a string, a tuple, None
\* or some other object.
ApiTexts == {<<>>, <<" ">>, <<"a">>}
ApiValues ==
  {PyStr(t) : t \in ApiTexts} \cup {PyNone, PyDict}
ApiOutcomes ==
  {[fn |-> "call_ai_api_thread_safe", configured |-> TRUE,
    kind |-> "raises", value |-> PyNone]}
  \cup {[fn |-> "call_ai_api_thread_safe", configured |-> TRUE,
         kind |-> "returns", value |-> v]
        : v \in ApiValues \cup {PyTuple(n, f) : n \in 1..2, f \in ApiValues}}

\* One backend call on an empty session.
InitBackend ==
  /\ main_df = <<>>
  /\ function_presets = PresetNames
  /\ imp = [t \in 1..MaxImports |-> NoImport]
  /\ project_directory = NoDirectory
  /\ backend \in OcrOutcomes \cup ApiOutcomes
  /\ returned = NoCall
  /\ InitSession

CallProcessImage ==
  /\ backend.fn = "process_image"
  /\ returned = NoCall
  /\ returned' = process_image(backend)
  /\ UNCHANGED <<main_df, data, shared, main_pc, processing, sigq, jobs_left,
                 function_presets, project_directory, load_message,
                 page_counter, files, backend, imports, imp, thread_vars>>

CallAiApi ==
  /\ backend.fn = "call_ai_api_thread_safe"
  /\ returned = NoCall
  /\ returned' = call_ai_api_thread_safe(backend)
  /\ UNCHANGED <<main_df, data, shared, main_pc, processing, sigq, jobs_left,
                 function_presets, project_directory, load_message,
                 page_counter, files, backend, imports, imp, thread_vars>>

\* process_image applied to the text an earlier call returned
CallProcessImageAgain ==
  /\ backend.fn = "process_image"
  /\ backend.configured
  /\ backend.kind = "returns"
  /\ returned.type = "str"
  /\ backend' = [fn |-> "process_image again", configured |-> TRUE,
                 kind |-> "returns", value |-> returned]
  /\ returned' = process_image(backend')
  /\ UNCHANGED <<main_df, data, shared, main_pc, processing, sigq, jobs_left,
                 function_presets, project_directory, load_message,
                 page_counter, files, imports, imp, thread_vars>>

NextBackend == CallProcessImage \/ CallAiApi \/ CallProcessImageAgain

SpecBackend == InitBackend /\ [][NextBackend]_vars

\* ------------------------------------------------------------ claims
\* An AI job thread is running.
JobActive == thr_pc \notin {"none", "finished"}

\* The job is an HTR or a text-correction job.
PageJob == operation_type \in {"htr_all", "correct_text"}

\* The PDF import threads that are running.
ActiveImports == {t \in 1..MaxImports : imp[t].pc \notin {"none", "finished"}}

\* The page tasks that hold a worker thread.
InWorker ==
  {k \in 1..Len(tasks) : tasks[k].st \in {"calling", "creating", "wrote"}}

\* C1: a submission while the current thread is running is rejected: no
\* thread is created while one runs, and the step that shows the warning
\* leaves the thread, the processing state of the tab and the Store as
\* they were.
C1_BusyRejected ==
  [][/\ JobActive => jobs_left' = jobs_left
     /\ (main_pc = "idle" /\ main_pc' = "warning") =>
          /\ JobActive
          /\ UNCHANGED <<main_df, data, shared, processing, jobs_left,
                         thread_vars>>
    ]_vars

\* C1, its case: a submission has just been rejected while a job runs.
C1_Rejected == main_pc = "warning" /\ JobActive

\* C2: at most one job thread, AI or PDF import, is running at any time.
C2_SingleActiveJob ==
  (IF JobActive THEN 1 ELSE 0) + Cardinality(ActiveImports) <= 1

\* C3: while an HTR or text-correction job runs, a write of a worker
\* changes the private frame of the job only: main_df stays as it is.
C3_WorkersWriteSnapshotOnly ==
  [][(JobActive /\ PageJob /\ thr_pc' # "finished" /\ data' # data)
       => main_df' = main_df]_vars

\* C4: a step of the page task of row k changes no cell of another row.
C4_RowDisjointWrites ==
  [][Len(tasks') = Len(tasks) =>
       \A k \in 1..Len(tasks) :
         tasks'[k] # tasks[k] =>
           \A j \in (1..Len(data)) \ {k} : data'[j] = data[j]]_vars

\* C5: the page tasks executing at the same time never exceed the cap of
\* the executor.
C5_ConcurrencyCap == Cardinality(InWorker) <= batch_size

\* C5, its case: the cap binds, a submitted page waits for a worker.
C5_CapBinds ==
  /\ Cardinality(InWorker) = batch_size
  /\ \E k \in 1..Len(tasks) : tasks[k].st = "queued"

\* C6: once the flag is set no page task starts to execute, but for at
\* most the one whose check before the dispatch had passed.
C6_NoStartAfterCancel == late_starts <= 1

\* C7: a job that reaches the end of its work with the flag set emits the
\* Cancelled terminal event.
C7_CancelledEvent ==
  [][(is_cancelled /\ thr_pc \in {"final", "sim_final"} /\ thr_pc' # thr_pc)
       => terminal'.kind = "cancelled"]_vars

\* C8: when a cancelled HTR or text-correction job ends, main_df holds the
\* result of every page task of the job that succeeded.
C8_PartialResultsKept ==
  [][(is_cancelled /\ thr_pc = "final" /\ thr_pc' = "finished") =>
       /\ \A k \in 1..Len(tasks) :
            tasks[k].ok =>
              /\ k <= Len(main_df')
              /\ main_df'[k].Original_Text = tasks[k].res
       /\ operation_type = "correct_text" =>
            \A k \in 1..Len(data) :
              data[k].Text_Toggle = "Corrected_Text" =>
                /\ k <= Len(main_df')
                /\ main_df'[k].Corrected_Text = data[k].Corrected_Text
    ]_vars

\* C9: an HTR or text-correction job over a Store that has pages never
\* ends with a job-level error, whatever fails on a page.
C9_NoJobLevelError ==
  (PageJob /\ terminal.kind = "error") => data = <<>>

\* A page of the HTR job with no usable image.
Unusable(k) == data[k].Image_Path = "" \/ ~PathExists(data[k].Image_Path)

\* C10: in an HTR job a page without a usable image gets no provider call,
\* is not counted, and its row stays as it is; one such page among three
\* and text for the other two gives completed 2 of 3.
C10_MissingImageSkipped ==
  [][(operation_type = "htr_all" /\ JobActive) =>
       /\ \A k \in 1..Len(data) : Unusable(k) => data'[k] = data[k]
       /\ \A k \in 1..Len(tasks') :
            Unusable(k) => tasks'[k].st \in {"none", "queued", "done"}
                           /\ ~tasks'[k].ok
       /\ terminal'.kind = "completed" =>
            terminal'.succeeded <=
              Cardinality({k \in 1..Len(data) : ~Unusable(k)})
    ]_vars

\* The configuration lacks the preset the job type looks up.
PresetMissing ==
  \/ operation_type = "htr_all" /\ "HTR" \notin function_presets
  \/ operation_type = "correct_text" /\ "Correct_Text" \notin function_presets

\* C11: an HTR or text-correction job whose preset is missing dispatches
\* no page task and ends with a job-level error, not with a Completed or
\* Cancelled status.
C11_MissingPresetFails ==
  (PresetMissing /\ data # <<>>) =>
    /\ \A k \in 1..Len(tasks) : tasks[k].st = "none"
    /\ terminal.kind \in {"none", "error"}
    /\ thr_pc = "finished" => terminal.kind = "error"

\* C12: a job of any type over an empty Store dispatches no page task,
\* emits no progress event and no success event, and ends with the
\* error event.
C12_EmptyStoreNoData ==
  (operation_type # "none" /\ data = <<>>) =>
    /\ tasks = <<>>
    /\ last_progress = <<0, 0>>
    /\ terminal.kind \in {"none", "error"}
    /\ thr_pc = "finished" => terminal.kind = "error"

\* Every page of the job is ineligible: no usable image for HTR, no
\* original text for text correction.
AllIneligible ==
  /\ data # <<>>
  /\ IF operation_type = "htr_all"
     THEN \A k \in 1..Len(data) : Unusable(k)
     ELSE \A k \in 1..Len(data) : Strip(Get(data[k], "Original_Text")) = ""

\* C13: an HTR or text-correction job all of whose pages are ineligible
\* does not report the Completed status.
C13_AllSkippedReported ==
  (PageJob /\ AllIneligible) => terminal.kind # "completed"

\* C14: in an HTR job the terminal event and the hand-back come after the
\* end of every page task that was dispatched, and no write to the data of
\* the job follows the terminal event.
C14_TerminalAfterTasks ==
  [][(operation_type = "htr_all" /\ thr_pc' # "start") =>
       /\ terminal' # terminal =>
            \A k \in 1..Len(tasks) : tasks[k].st \in {"none", "done"}
       /\ thr_pc = "sync" =>
            \A k \in 1..Len(tasks) : tasks[k].st \in {"none", "done"}
       /\ terminal.kind # "none" => data' = data
    ]_vars

\* C14, its case: a cancelled HTR job has emitted its terminal event, and
\* page tasks had started after the harvesting loop was left.
C14_CancelledAfterDrain ==
  /\ operation_type = "htr_all"
  /\ terminal.kind = "cancelled"
  /\ late_starts > 0

\* C15: when a cancelled HTR job ends reporting p of t, p <= t and the
\* pages the job has written are p in number.
C15_CancelSummaryExact ==
  [][(operation_type = "htr_all" /\ is_cancelled
        /\ thr_pc = "final" /\ thr_pc' = "finished") =>
       /\ terminal'.succeeded <= terminal'.total
       /\ Cardinality({k \in 1..Len(tasks) : tasks[k].ok})
            = terminal'.succeeded
    ]_vars

\* C16: within a job the count of a progress event is never smaller than
\* the count of the event before it.
C16_ProgressMonotone ==
  [][thr_pc' # "start" => last_progress'[1] >= last_progress[1]]_vars

\* C16, its case: an HTR job has harvested two pages before page 1, one
\* of them a success and one a failure.
C16_OutOfOrderMix ==
  /\ operation_type = "htr_all"
  /\ 1 \notin harvested
  /\ Cardinality(harvested) = 2
  /\ last_progress[1] = 1

\* C17: when an HTR job emits its terminal event, every page task that
\* finished has been followed by a progress event.
C17_ProgressAfterEveryTask ==
  (operation_type = "htr_all" /\ terminal.kind \in {"completed", "cancelled"})
    => unreported = {}

\* The page tasks of the job that have finished.
FinishedTasks ==
  IF operation_type = "htr_all"
  THEN Cardinality({k \in 1..Len(tasks) : tasks[k].st = "done"})
  ELSE loop_i

\* C18: the count of a progress event of an HTR or text-correction job is
\* at most the number of page tasks finished when it is emitted.
C18_ProgressCountsFinished ==
  [][(PageJob /\ thr_pc' # "start" /\ last_progress' # last_progress)
       => last_progress'[1] <= FinishedTasks]_vars

\* C19: an HTR job that runs reaches its end, whether or not the provider
\* answers.
C19_JobTerminates ==
  (operation_type = "htr_all" /\ JobActive) ~> ~JobActive

\* C20: when an HTR job over pages that hold the text of an earlier run
\* ends, each page a provider call was made for holds the result of that
\* call: its text, or nothing when the call gave none.
C20_RerunOverwrites ==
  [][(operation_type = "htr_all" /\ thr_pc \in {"final", "sync"}
        /\ thr_pc' = "finished") =>
       \A k \in 1..Len(tasks) :
         (tasks[k].st = "done" /\ ~Unusable(k)) =>
           IF tasks[k].ok
           THEN main_df'[k].Original_Text = tasks[k].res
           ELSE Strip(main_df'[k].Original_Text) = ""
    ]_vars

\* C24: a PDF import into a Store of length L appends records whose Index
\* values are exactly L, L+1, ..., L+succeeded-1, in page order and without
\* gaps: on the step that completes an import, the Store grows by the
\* reported number of records and each new record's Index is its position.
C24_ImportAppendsInOrder ==
  [][\A t \in DOMAIN imp :
       (imp[t].result = "none" /\ imp'[t].result = "complete")
       => /\ Len(main_df') = Len(main_df) + imp'[t].appended
          /\ \A k \in (Len(main_df) + 1)..Len(main_df') :
               main_df'[k].Index = k - 1]_vars

\* C25: an import in which one page failed after other pages succeeded
\* does not end with an error: the page is skipped, the others appended.
C25_FailedPageSkipped ==
  \A t \in DOMAIN imp :
    (imp[t].failed_at = "page" /\ imp[t].page_num > 0)
    => imp[t].result # "error"

\* C26: when the source PDF cannot be opened, the import ends with an
\* error on that step, which changes neither the Store nor page_counter
\* and writes no image.
C26_OpenFailureAtomic ==
  [][\A t \in DOMAIN imp :
       (imp[t].pc = "open" /\ imp'[t].failed_at = "open")
       => /\ imp'[t].pc = "finished"
          /\ imp'[t].result = "error"
          /\ imp'[t].appended = 0
          /\ main_df' = main_df
          /\ page_counter' = page_counter
          /\ files' = files]_vars

\* C26 happens: an import into a Store with records has failed to open
\* its PDF.
C26_OpenFailed ==
  /\ Len(main_df) > 0
  /\ \E t \in DOMAIN imp : imp[t].failed_at = "open"

\* C27: the Index values of the records in the Store are pairwise
\* distinct.
C27_IndexDistinct ==
  \A i, j \in 1..Len(main_df) :
    (i # j /\ main_df[i].Index # NoIndex)
    => main_df[i].Index # main_df[j].Index

\* C28: no two rasterized pages of a session are written to the same
\* filename token, imports that failed after writing images included.
C28_FilenamesCollisionFree ==
  \A f \in BagToSet(files) : CopiesIn(f, files) <= 1

\* C29: when the observer handles the Completed event of an HTR job, the
\* main window's Store already holds the text of every page the job
\* processed successfully.
C29_StoreHoldsTextAtCompleted ==
  [][(/\ sigq # <<>>
      /\ sigq' = Tail(sigq)
      /\ Head(sigq) = "completed"
      /\ operation_type = "htr_all"
      /\ thr_pc = "sync")
     => \A k \in 1..Len(tasks) :
          tasks[k].ok =>
            /\ k <= Len(main_df)
            /\ main_df[k].Original_Text = tasks[k].res]_vars

Returned == returned.type # "no call"

\* The backend call failed: not configured, an exception, or a result
\* that is neither a string nor a tuple of two items or more.
BackendFailed ==
  \/ ~backend.configured
  \/ backend.kind = "raises"
  \/ /\ backend.fn = "call_ai_api_thread_safe"
     /\ backend.value.type # "str"
     /\ ~(backend.value.type = "tuple" /\ backend.value.len >= 2)

\* C21: every backend call returns a string, '' when the call failed:
\* call_ai_api_thread_safe and process_image yield a string for every
\* outcome of the backend.
C21_AlwaysString ==
  Returned =>
    /\ returned.type = "str"
    /\ BackendFailed => returned.val = <<>>

\* The OCR backend has answered with a document.
OcrSucceeded ==
  /\ backend.fn = "process_image"
  /\ backend.configured
  /\ backend.kind = "returns"
  /\ Returned

\* The characters of s that are no whitespace, in their order.
Visible(s) == SelectSeq(s, LAMBDA c : c \notin Whitespace)

\* The place in s of its k-th character that is no whitespace.
VisibleAt(s, k) ==
  CHOOSE i \in 1..Len(s) :
    /\ s[i] \notin Whitespace
    /\ Cardinality({j \in 1..i : s[j] \notin Whitespace}) = k

\* What separates the k-th and the next visible character of a raw text:
\* nothing, whitespace within a line, or at least one line break.
RawGap(s, k) ==
  LET i == VisibleAt(s, k)
      j == VisibleAt(s, k + 1)
  IN IF j = i + 1 THEN "none"
     ELSE IF \E m \in (i + 1)..(j - 1) : s[m] = "\n" THEN "line"
     ELSE "space"

\* What separates them in a cleaned text: nothing, one blank, one line
\* break, or something else.
CleanGap(s, k) ==
  LET i == VisibleAt(s, k)
      j == VisibleAt(s, k + 1)
  IN IF j = i + 1 THEN "none"
     ELSE IF j = i + 2 /\ s[i + 1] = "\n" THEN "line"
     ELSE IF j = i + 2 /\ s[i + 1] = " " THEN "space"
     ELSE "other"

\* C22: for a raw text with a non-blank line, the OCR cleanup returns the
\* non-blank lines, trimmed, each inner run of whitespace collapsed to one
\* blank, joined by single line breaks, with no whitespace at either end:
\* the visible characters are kept in order, and two neighbours are
\* separated by nothing, one blank or one line break as they were by
\* nothing, whitespace of a line, or line breaks.
C22_CleanupNormalises ==
  (OcrSucceeded /\ StripText(backend.value.val) # <<>>) =>
    LET raw == backend.value.val
        out == returned.val
    IN /\ returned.type = "str"
       /\ Visible(out) = Visible(raw)
       /\ out[1] \notin Whitespace
       /\ out[Len(out)] \notin Whitespace
       /\ \A k \in 1..(Len(Visible(raw)) - 1) :
            CleanGap(out, k) = RawGap(raw, k)

\* C22 happens: a raw text with a run of whitespace inside a line and an
\* empty line between two lines has been cleaned.
C22_RunAndBlankLineCleaned ==
  /\ OcrSucceeded
  /\ backend.value.val = <<"a", " ", "\t", "b", "\n", "\n", "b">>
  /\ returned.val = <<"a", " ", "b", "\n", "b">>

\* C23: when the OCR backend succeeds but extracts no text (empty or only
\* whitespace), process_image returns the placeholder; a successful
\* result is never ''.
C23_PlaceholderOnNoText ==
  OcrSucceeded =>
    /\ returned.type = "str"
    /\ returned.val # <<>>
    /\ StripText(backend.value.val) = <<>> => returned.val = Placeholder

\* C23 happens: a text of whitespace only has given the placeholder.
C23_WhitespaceOnlyText ==
  /\ OcrSucceeded
  /\ backend.value.val # <<>>
  /\ StripText(backend.value.val) = <<>>
  /\ returned.val = Placeholder

\* The columns of every record of the Store.
IsTable(df) ==
  \A k \in 1..Len(df) :
    DOMAIN df[k] =
      {"Index", "Image_Path", "Original_Text", "Corrected_Text",
       "Text_Toggle"}

\* C31: load_files_from_folder_no_text leaves the Store and page_counter
\* unchanged when no project directory is set or the directory holds no
\* image file, and the Store is a table afterwards.
C31_LoadNothingKeepsStore ==
  [][(/\ load_message' # load_message
      /\ load_message' \in {"No directory selected.", "No Files"})
     => /\ main_df' = main_df
        /\ page_counter' = page_counter
        /\ IsTable(main_df')]_vars

\* C31 happens: a directory without images has been loaded over a Store
\* with records and a page_counter an import has set.
C31_EmptyFolderLoaded ==
  /\ load_message = "No Files"
  /\ Len(main_df) > 0
  /\ page_counter > 0

\* C32: the hand-back of an AI job never replaces the Store with a version
\* that lacks records a PDF import appended while the job was running: the
\* records of the Store before the hand-back are in the Store after it.
C32_HandBackKeepsImportedRows ==
  [][(thr_pc = "sync" /\ thr_pc' = "finished")
     => /\ Len(main_df') >= Len(main_df)
        /\ \A k \in 1..Len(main_df) :
             main_df'[k].Index = main_df[k].Index]_vars

\* C33: an AI job emits at most one terminal event (a terminal event is
\* emitted only by a job that has emitted none), and a job that has ended
\* without being cancelled has emitted one.
C33_OneTerminalEvent ==
  [][/\ Len(sigq') > Len(sigq) => terminal.kind = "none"
     /\ (thr_pc' = "finished" /\ ~is_cancelled')
        => terminal'.kind \in {"completed", "error"}]_vars

\* C33 happens: an HTR job that was not cancelled has ended after its
\* Completed event and its hand-back.
C33_CompletedAndEnded ==
  /\ operation_type = "htr_all"
  /\ thr_pc = "finished"
  /\ ~is_cancelled
  /\ terminal.kind = "completed"

\* C34: whenever an AI job thread is running, the process tab is in its
\* processing state (job buttons disabled, cancel control visible).
C34_RunningImpliesProcessing == IsRunning => processing

C36_ImportOneTerminalEvent ==
  \A t \in DOMAIN imp :
    /\ imp[t].events <= 1
    /\ imp[t].pc = "finished" =>
         /\ imp[t].events = 1
         /\ imp[t].result \in {"complete", "error"}
    /\ imp[t].pc # "finished" => imp[t].events = 0

\* C36 happens: imports have ended on a page-level exception and with
\* zero pages.
C36_PageFailureAndZeroPages ==
  /\ \E t \in DOMAIN imp : imp[t].failed_at = "page" /\ imp[t].page_num > 0
  /\ \E t \in DOMAIN imp : imp[t].failed_at = "empty"

\* The page task of record k has stored the text the record holds.
StoredByTask(k, df) ==
  /\ k \in 1..Len(tasks')
  /\ tasks'[k].res # ""
  /\ df[k].Original_Text = tasks'[k].res

\* C37: an HTR job never changes the number or order of records and
\* writes only Original_Text and Text_Toggle of pages it succeeded on:
\* every other field of every record is unchanged on each of its steps.
C37_HTRWritesOnlyItsCells ==
  [][/\ Len(main_df') = Len(main_df)
     /\ \A k \in 1..Len(main_df) :
          /\ main_df'[k].Index = main_df[k].Index
          /\ main_df'[k].Image_Path = main_df[k].Image_Path
          /\ main_df'[k].Corrected_Text = main_df[k].Corrected_Text
          /\ main_df'[k].Original_Text # main_df[k].Original_Text
             => StoredByTask(k, main_df')
          /\ main_df'[k].Text_Toggle # main_df[k].Text_Toggle
             => /\ main_df'[k].Text_Toggle = "Original_Text"
                /\ StoredByTask(k, main_df')]_vars

\* The field of the record holds a non-empty text.
HoldsText(row, field) == Get(row, field) \notin {"", NaN}

\* C38: in every reachable state each record's Text_Toggle is 'None' or
\* names a text field of the record that is non-empty.
C38_ToggleNamesText ==
  \A k \in 1..Len(main_df) :
    \/ main_df[k].Text_Toggle = "None"
    \/ /\ main_df[k].Text_Toggle \in {"Original_Text", "Corrected_Text"}
       /\ HoldsText(main_df[k], main_df[k].Text_Toggle)

\* C39: every progress event an AI job emits carries total >= 1 and
\* 0 <= current <= total, for the four job types and every Store.
C39_ProgressInRange ==
  [][(thr_pc' # "start" /\ last_progress' # last_progress)
     => /\ last_progress'[2] >= 1
        /\ 0 <= last_progress'[1]
        /\ last_progress'[1] <= last_progress'[2]]_vars

\* C39 happens: a text-correction job over several pages has emitted the
\* progress event of its last page.
C39_LastPageProgress ==
  /\ operation_type = "correct_text"
  /\ last_progress[2] >= 2
  /\ last_progress[1] = last_progress[2]

\* C40: the OCR text cleanup is idempotent: applied to its own output it
\* returns that output unchanged, the placeholder of the empty-text case
\* included.
C40_CleanupIdempotent ==
  backend.fn = "process_image again" => returned = backend.value

\* C40 happens: the cleanup has been applied again to a cleaned text of
\* two lines.
C40_CleanedTwice ==
  /\ backend.fn = "process_image again"
  /\ backend.value.val = <<"a", " ", "b", "\n", "b">>
  /\ returned.type = "str"

====
